---------------------------- MODULE Spec2Model ----------------------------
(***************************************************************************)
(* NE-NETRA risk aggregation and scoring engine                            *)
(* (backend/risk_aggregation.py, with the ProcessedSignal record of        *)
(* backend/incident_ingestion.py).                                         *)
(*                                                                         *)
(* The engine is a set of pure methods; the state of the model is the      *)
(* caller's signal list, the wall clock that datetime.now() reads, and the *)
(* record of the last compute_district_risk call (its arguments and the    *)
(* DistrictRiskScore it returned).                                         *)
(*                                                                         *)
(* Representation of the Python values:                                    *)
(*   datetime   an integer number of seconds (timedelta = difference);     *)
(*   float      a fixed-point integer: recency weights and layer scores in *)
(*              units of 1/Scale, the composite score in units of          *)
(*              1/ScoreScale, a signal weight in units of 1/WeightDen;     *)
(*   math.exp   ExpNeg: tabulated at multiples of 1/16 and interpolated    *)
(*              linearly in between, which keeps it monotone;              *)
(*   None / ""  the empty string (both are falsy in `a or b`);             *)
(*   dict       a sequence of <<key, value>> pairs with distinct keys, in  *)
(*              insertion order.                                           *)
(*                                                                         *)
(* district_signals is the caller's mapping of districts to signal lists,  *)
(* the input of batch_compute_districts.  engine is the attributes an      *)
(* invocation reaches through self (the class-level tables and the         *)
(* instance's own, empty, __dict__); invocations is each concurrent        *)
(* invocation's position in compute_district_risk, with the arguments it   *)
(* was given and the result it returned; frames is the local variables of  *)
(* each invocation.                                                        *)
(***************************************************************************)
EXTENDS Integers, Sequences, FiniteSets, TLC

VARIABLES signals, now, call, district_signals, engine, invocations, frames

\* One engine object and the compute_district_risk invocations running on it.
worker_vars == <<engine, invocations, frames>>

vars == <<signals, now, call, district_signals, worker_vars>>

---------------------------------------------------------------------------
(* Fixed-point arithmetic                                                  *)

Scale == 10000

ScoreScale == 1000

SecondsPerHour == 3600

Min(a, b) == IF a <= b THEN a ELSE b

Max(a, b) == IF a >= b THEN a ELSE b

\* ExpTable[k + 1] = round(Scale * e^(-k/16)), k = 0 .. 80.
ExpTable ==
    << 10000, 9394, 8825, 8290, 7788, 7316, 6873, 6456, 6065,
       5698, 5353, 5028, 4724, 4437, 4169, 3916, 3679, 3456,
       3247, 3050, 2865, 2691, 2528, 2375, 2231, 2096, 1969,
       1850, 1738, 1632, 1534, 1441, 1353, 1271, 1194, 1122,
       1054, 990, 930, 874, 821, 771, 724, 681, 639,
       601, 564, 530, 498, 468, 439, 413, 388, 364,
       342, 321, 302, 284, 266, 250, 235, 221, 208,
       195, 183, 172, 162, 152, 143, 134, 126, 118,
       111, 104, 98, 92, 87, 81, 76, 72, 67 >>

ExpKnotsPerUnit == 16

ExpTableSpan == 5

\* Scale * e^(-n/d) for n >= 0, d > 0.  From n/d = 10 on the value is
\* below one unit of 1/Scale and comes out as 0.
RECURSIVE ExpNeg(_, _)
ExpNeg(n, d) ==
    IF n >= 2 * ExpTableSpan * d THEN 0
    ELSE IF n >= ExpTableSpan * d
    THEN (ExpNeg(n - ExpTableSpan * d, d) * ExpTable[Len(ExpTable)]) \div Scale
    ELSE LET k == (ExpKnotsPerUnit * n) \div d
             lo == ExpTable[k + 1]
             hi == ExpTable[k + 2]
         IN  lo - ((lo - hi) * (ExpKnotsPerUnit * n - k * d)) \div d

\* Scale * e^(n/d) for any integer n, d > 0 (math.exp).
Exp(n, d) ==
    IF n <= 0 THEN ExpNeg(-n, d) ELSE (Scale * Scale) \div ExpNeg(n, d)

---------------------------------------------------------------------------
(* incident_ingestion.py: enumerations and the signal record               *)

RiskLayer == <<"cognitive", "network", "physical">>

Polarity == {"escalatory", "stabilizing", "neutral"}

GeoSensitivity ==
    {"border_area", "market_trade_hub", "highway_transit", "capital_admin",
     "sensitive_zone"}

Range(s) == {s[i] : i \in DOMAIN s}

\* The fields the ingestion sets or the engine reads.  The defaulted
\* metadata fields (ingestion_timestamp, pii_redacted, district_level_only)
\* are read by no method of the engine and are left out.
ProcessedSignal(st, d, loc, summary, ts, layers, pol, sev, geo) ==
    [state |-> st, district |-> d, location |-> loc,
     event_summary |-> summary, timestamp |-> ts,
     source_url |-> "https://example.com/news",
     source_type |-> "public_open_source",
     risk_layers |-> layers, polarity |-> pol, severity_score |-> sev,
     geo_sensitivity |-> geo,
     classification_rationale |-> "rationale"]

---------------------------------------------------------------------------
(* risk_aggregation.py: RiskThreshold                                      *)

MONITORING == 30

PREVENTIVE == 60

SENIOR_REVIEW == 75

CRITICAL == 90

\* get_label with the comparisons taken as strict (> for >=).
get_label_exclusive(score) ==
    IF score > CRITICAL * ScoreScale THEN "CRITICAL"
    ELSE IF score > SENIOR_REVIEW * ScoreScale THEN "SENIOR_REVIEW"
    ELSE IF score > PREVENTIVE * ScoreScale THEN "PREVENTIVE_READINESS"
    ELSE IF score > MONITORING * ScoreScale THEN "MONITORING"
    ELSE "BASELINE"

\* score is a composite score in units of 1/ScoreScale.
get_label(score) ==
    IF score >= CRITICAL * ScoreScale THEN "CRITICAL"
    ELSE IF score >= SENIOR_REVIEW * ScoreScale THEN "SENIOR_REVIEW"
    ELSE IF score >= PREVENTIVE * ScoreScale THEN "PREVENTIVE_READINESS"
    ELSE IF score >= MONITORING * ScoreScale THEN "MONITORING"
    ELSE "BASELINE"

get_range(label) ==
    CASE label = "BASELINE" -> "0-29"
      [] label = "MONITORING" -> "30-59"
      [] label = "PREVENTIVE_READINESS" -> "60-74"
      [] label = "SENIOR_REVIEW" -> "75-89"
      [] label = "CRITICAL" -> "90-100"
      [] OTHER -> "Unknown"

\* get_risk_level with "critical" starting at the CRITICAL threshold, 90.
get_risk_level_from_90(composite_score) ==
    IF composite_score >= 90 * ScoreScale THEN "critical"
    ELSE IF composite_score >= 60 * ScoreScale THEN "high"
    ELSE IF composite_score >= 30 * ScoreScale THEN "medium"
    ELSE "low"

get_risk_level(composite_score) ==
    IF composite_score >= 75 * ScoreScale THEN "critical"
    ELSE IF composite_score >= 60 * ScoreScale THEN "high"
    ELSE IF composite_score >= 30 * ScoreScale THEN "medium"
    ELSE "low"

---------------------------------------------------------------------------
(* risk_aggregation.py: RiskAggregationEngine, weighting                   *)

\* RECENCY_DECAY = 0.5 as a fraction.
RECENCY_DECAY == [num |-> 1, den |-> 2]

\* Multipliers in tenths (1.5 -> 15).
GEO_SENSITIVITY_MULTIPLIERS(tag) ==
    CASE tag = "border_area" -> 15
      [] tag = "market_trade_hub" -> 12
      [] tag = "highway_transit" -> 13
      [] tag = "capital_admin" -> 14
      [] tag = "sensitive_zone" -> 16
      [] OTHER -> 10

\* Layer weights in tenths (1.0 -> 10).
LAYER_WEIGHTS(layer) == 10

timedelta_hours(h) == h * SecondsPerHour

\* filter_by_time_window with the window taken as timedelta(days=...).
filter_by_time_window_days(sigs, window_hours, reference_time) ==
    LET cutoff_time == reference_time - timedelta_hours(24 * window_hours)
    IN  SelectSeq(sigs, LAMBDA signal : signal.timestamp >= cutoff_time)

filter_by_time_window(sigs, window_hours, reference_time) ==
    LET cutoff_time == reference_time - timedelta_hours(window_hours)
    IN  SelectSeq(sigs, LAMBDA signal : signal.timestamp >= cutoff_time)

\* calculate_recency_weight without the max(0.1, .) floor.
calculate_recency_weight_unfloored(signal_time, reference_time) ==
    LET seconds_ago == reference_time - signal_time
    IN  Exp(-(RECENCY_DECAY.num * seconds_ago),
            RECENCY_DECAY.den * SecondsPerHour * 24)

\* max(0.1, exp(-RECENCY_DECAY * hours_ago / 24)) in units of 1/Scale;
\* hours_ago = (reference_time - signal_time) seconds / 3600.
calculate_recency_weight(signal_time, reference_time) ==
    LET seconds_ago == reference_time - signal_time
        weight == Exp(-(RECENCY_DECAY.num * seconds_ago),
                      RECENCY_DECAY.den * SecondsPerHour * 24)
    IN  Max(Scale \div 10, weight)

RECURSIVE MaxOfSeq(_)
MaxOfSeq(s) ==
    IF Len(s) = 1 THEN s[1] ELSE Max(s[1], MaxOfSeq(Tail(s)))

\* In tenths.
calculate_geo_weight(geo_tags) ==
    IF geo_tags = <<>> THEN 10
    ELSE MaxOfSeq([i \in DOMAIN geo_tags |->
                      GEO_SENSITIVITY_MULTIPLIERS(geo_tags[i])])

\* In tenths.
polarity_factor(polarity) ==
    IF polarity = "stabilizing" THEN -5
    ELSE IF polarity = "neutral" THEN 3
    ELSE 10

\* severity/5 * recency (1/Scale) * geo (1/10) * polarity (1/10).
WeightDen == 5 * Scale * 10 * 10

\* calculate_signal_weight with the severity ratio inverted
\* (5.0 / severity_score for severity_score / 5.0).
calculate_signal_weight_inverse(signal, reference_time) ==
    ((25 * calculate_recency_weight(signal.timestamp, reference_time))
            \div signal.severity_score)
        * calculate_geo_weight(signal.geo_sensitivity)
        * polarity_factor(signal.polarity)

\* The weight in units of 1/WeightDen.
calculate_signal_weight(signal, reference_time) ==
    signal.severity_score
        * calculate_recency_weight(signal.timestamp, reference_time)
        * calculate_geo_weight(signal.geo_sensitivity)
        * polarity_factor(signal.polarity)


---------------------------------------------------------------------------
(* risk_aggregation.py: RiskAggregationEngine, aggregation                 *)

\* How many times `layer` occurs in a signal's risk_layers list.
LayerOccurrences(signal, layer) ==
    Cardinality({i \in DOMAIN signal.risk_layers : signal.risk_layers[i] = layer})

\* layer_contributions[layer] after the loop over the signals: each signal
\* adds its weight once per occurrence of the layer in its risk_layers.
RECURSIVE layer_contributions(_, _, _)
layer_contributions(sigs, layer, reference_time) ==
    IF sigs = <<>> THEN 0
    ELSE LET n == LayerOccurrences(Head(sigs), layer)
             rest == layer_contributions(Tail(sigs), layer, reference_time)
         IN  IF n = 0 THEN rest
             ELSE n * calculate_signal_weight(Head(sigs), reference_time) + rest

\* layer_counts[layer] after the loop over the signals.
RECURSIVE layer_counts(_, _)
layer_counts(sigs, layer) ==
    IF sigs = <<>> THEN 0
    ELSE LayerOccurrences(Head(sigs), layer) + layer_counts(Tail(sigs), layer)

\* layer_score with the contributions divided by the number of signals
\* instead of the number of signals tagged with the layer.
layer_score_per_signal(sigs, layer, reference_time) ==
    LET count == layer_counts(sigs, layer)
    IN  IF count > 0
        THEN LET raw_score ==
                     layer_contributions(sigs, layer, reference_time)
                         \div (Max(1, Len(sigs)) * (WeightDen \div (10 * Scale)))
             IN  Min(10 * Scale, raw_score)
        ELSE 0

\* The 0-10 score of one layer in units of 1/Scale:
\* contributions / max(1, count) * 10, capped above at 10.0.
layer_score(sigs, layer, reference_time) ==
    LET count == layer_counts(sigs, layer)
    IN  IF count > 0
        THEN LET raw_score ==
                     layer_contributions(sigs, layer, reference_time)
                         \div (Max(1, count) * (WeightDen \div (10 * Scale)))
             IN  Min(10 * Scale, raw_score)
        ELSE 0

\* The dict layer_scores, keyed by layer.value.
aggregate_layer_scores(sigs, reference_time) ==
    [cognitive |-> layer_score(sigs, "cognitive", reference_time),
     network |-> layer_score(sigs, "network", reference_time),
     physical |-> layer_score(sigs, "physical", reference_time)]

\* sum(layer_scores.get(layer.value, 0) * LAYER_WEIGHTS[layer]) over the
\* layers from index i on.
RECURSIVE WeightedSum(_, _)
WeightedSum(layer_scores, i) ==
    IF i > Len(RiskLayer) THEN 0
    ELSE layer_scores[RiskLayer[i]] * LAYER_WEIGHTS(RiskLayer[i])
         + WeightedSum(layer_scores, i + 1)

\* sum(LAYER_WEIGHTS.values()) from index i on.
RECURSIVE SumLayerWeights(_)
SumLayerWeights(i) ==
    IF i > Len(RiskLayer) THEN 0
    ELSE LAYER_WEIGHTS(RiskLayer[i]) + SumLayerWeights(i + 1)

SigmoidK == [num |-> 1, den |-> 10]

SigmoidMidpoint == 50

\* compute_composite_score returning the normalized percentage: no
\* sigmoid, no clamp.
compute_composite_score_linear(layer_scores) ==
    LET weighted_sum == WeightedSum(layer_scores, 1)
        max_possible == SumLayerWeights(1) * 10
        normalized == (weighted_sum * 100) \div max_possible
    IN  (normalized * ScoreScale) \div Scale

\* compute_composite_score with the sign of the exponent slipped:
\* 100 / (1 + exp(+k * (normalized - midpoint))).
compute_composite_score_sign(layer_scores) ==
    LET weighted_sum == WeightedSum(layer_scores, 1)
        max_possible == SumLayerWeights(1) * 10
        normalized == (weighted_sum * 100) \div max_possible
        a == SigmoidK.num * (normalized - SigmoidMidpoint * Scale)
        d == SigmoidK.den * Scale
        sigmoid_score ==
            IF a <= 0
            THEN (100 * ScoreScale * Scale) \div (Scale + ExpNeg(-a, d))
            ELSE (100 * ScoreScale * ExpNeg(a, d)) \div (Scale + ExpNeg(a, d))
    IN  Min(100 * ScoreScale, Max(0, sigmoid_score))

\* 100 / (1 + exp(-k * (normalized - midpoint))), clamped to [0, 100], in
\* units of 1/ScoreScale.  For a positive exponent a the quotient is taken
\* as 100 * e^(-a) / (e^(-a) + 1), the same number, which stays in range.
compute_composite_score(layer_scores) ==
    LET weighted_sum ==
            WeightedSum(layer_scores, 1)
        max_possible == SumLayerWeights(1) * 10
        normalized == (weighted_sum * 100) \div max_possible
        a == -(SigmoidK.num * (normalized - SigmoidMidpoint * Scale))
        d == SigmoidK.den * Scale
        sigmoid_score ==
            IF a <= 0
            THEN (100 * ScoreScale * Scale) \div (Scale + ExpNeg(-a, d))
            ELSE (100 * ScoreScale * ExpNeg(a, d)) \div (Scale + ExpNeg(a, d))
    IN  Min(100 * ScoreScale, Max(0, sigmoid_score))

\* InsertDesc without reverse=True: the sort comes out ascending.
RECURSIVE InsertAsc(_, _)
InsertAsc(sorted, p) ==
    IF sorted = <<>> THEN <<p>>
    ELSE IF Head(sorted)[2] <= p[2]
         THEN <<Head(sorted)>> \o InsertAsc(Tail(sorted), p)
         ELSE <<p>> \o sorted

\* InsertDesc for a sort that is not stable: of two equal keys the later
\* one comes out first.
RECURSIVE InsertDescUnstable(_, _)
InsertDescUnstable(sorted, p) ==
    IF sorted = <<>> THEN <<p>>
    ELSE IF Head(sorted)[2] > p[2]
         THEN <<Head(sorted)>> \o InsertDescUnstable(Tail(sorted), p)
         ELSE <<p>> \o sorted

\* Stable descending sort of a sequence of <<item, key>> pairs
\* (list.sort(key=..., reverse=True) keeps equal keys in their order).
RECURSIVE InsertDesc(_, _)
InsertDesc(sorted, p) ==
    IF sorted = <<>> THEN <<p>>
    ELSE IF Head(sorted)[2] >= p[2]
         THEN <<Head(sorted)>> \o InsertDesc(Tail(sorted), p)
         ELSE <<p>> \o sorted

RECURSIVE SortDesc(_)
SortDesc(s) ==
    IF s = <<>> THEN <<>>
    ELSE InsertDesc(SortDesc(SubSeq(s, 1, Len(s) - 1)), s[Len(s)])

\* layer_scores.items(): the layers in the order the dict was filled.
LayerItems(layer_scores) ==
    [i \in DOMAIN RiskLayer |-> <<RiskLayer[i], layer_scores[RiskLayer[i]]>>]

\* identify_primary_trigger with the secondary test taken as strict
\* (score > threshold).
identify_primary_trigger_strict(layer_scores) ==
    LET sorted_layers == SortDesc(LayerItems(layer_scores))
        primary == sorted_layers[1][1]
        primary_score == sorted_layers[1][2]
        rest == SelectSeq(Tail(sorted_layers),
                          LAMBDA p : 2 * p[2] > primary_score)
    IN  <<primary, [i \in DOMAIN rest |-> rest[i][1]]>>

\* identify_primary_trigger with the secondary layers taken from
\* sorted_layers instead of sorted_layers[1:].
identify_primary_trigger_unsliced(layer_scores) ==
    LET sorted_layers == SortDesc(LayerItems(layer_scores))
        primary == sorted_layers[1][1]
        primary_score == sorted_layers[1][2]
        rest == SelectSeq(sorted_layers,
                          LAMBDA p : 2 * p[2] >= primary_score)
    IN  <<primary, [i \in DOMAIN rest |-> rest[i][1]]>>

\* <<primary, secondary>>.
identify_primary_trigger(layer_scores) ==
    LET sorted_layers == SortDesc(LayerItems(layer_scores))
        primary == sorted_layers[1][1]
        primary_score == sorted_layers[1][2]
        rest == SelectSeq(Tail(sorted_layers),
                          LAMBDA p : 2 * p[2] >= primary_score)
    IN  <<primary, [i \in DOMAIN rest |-> rest[i][1]]>>

RECURSIVE SumSeverity(_)
SumSeverity(sigs) ==
    IF sigs = <<>> THEN 0
    ELSE Head(sigs).severity_score + SumSeverity(Tail(sigs))

\* detect_trend with the older mean defaulting to 0 when there is no
\* older signal.
detect_trend_zero_default(sigs, reference_time) ==
    IF sigs = <<>> THEN "stable"
    ELSE
    LET cutoff_recent == reference_time - timedelta_hours(24)
        cutoff_older == reference_time - timedelta_hours(72)
        recent_signals ==
            SelectSeq(sigs, LAMBDA s : s.timestamp >= cutoff_recent)
        older_signals ==
            SelectSeq(sigs, LAMBDA s : cutoff_older <= s.timestamp
                                       /\ s.timestamp < cutoff_recent)
    IN  IF recent_signals = <<>> THEN "stable"
        ELSE
        LET lr == Len(recent_signals)
            sr == SumSeverity(recent_signals)
            lo == IF older_signals = <<>> THEN 1 ELSE Len(older_signals)
            so == SumSeverity(older_signals)
            diff_num == 2 * (sr * lo - so * lr)
            diff_den == lr * lo
        IN  IF diff_num > diff_den THEN "rising"
            ELSE IF diff_num < -diff_den THEN "falling"
            ELSE "stable"

\* detect_trend with the thresholds taken as inclusive (>= 0.5, <= -0.5).
detect_trend_inclusive(sigs, reference_time) ==
    IF sigs = <<>> THEN "stable"
    ELSE
    LET cutoff_recent == reference_time - timedelta_hours(24)
        cutoff_older == reference_time - timedelta_hours(72)
        recent_signals ==
            SelectSeq(sigs, LAMBDA s : s.timestamp >= cutoff_recent)
        older_signals ==
            SelectSeq(sigs, LAMBDA s : cutoff_older <= s.timestamp
                                       /\ s.timestamp < cutoff_recent)
    IN  IF recent_signals = <<>> THEN "stable"
        ELSE
        LET lr == Len(recent_signals)
            sr == SumSeverity(recent_signals)
            lo == IF older_signals = <<>> THEN lr ELSE Len(older_signals)
            so == IF older_signals = <<>> THEN sr
                  ELSE SumSeverity(older_signals)
            diff_num == 2 * (sr * lo - so * lr)
            diff_den == lr * lo
        IN  IF diff_num >= diff_den THEN "rising"
            ELSE IF diff_num <= -diff_den THEN "falling"
            ELSE "stable"

\* diff = mean(recent) - mean(older) compared with +-0.5, on exact
\* fractions: diff = (sr * lo - so * lr) / (lr * lo).
detect_trend(sigs, reference_time) ==
    IF sigs = <<>> THEN "stable"
    ELSE
    LET cutoff_recent == reference_time - timedelta_hours(24)
        cutoff_older == reference_time - timedelta_hours(72)
        recent_signals ==
            SelectSeq(sigs, LAMBDA s : s.timestamp >= cutoff_recent)
        older_signals ==
            SelectSeq(sigs, LAMBDA s : cutoff_older <= s.timestamp
                                       /\ s.timestamp < cutoff_recent)
    IN  IF recent_signals = <<>> THEN "stable"
        ELSE
        LET lr == Len(recent_signals)
            sr == SumSeverity(recent_signals)
            lo == IF older_signals = <<>> THEN lr ELSE Len(older_signals)
            so == IF older_signals = <<>> THEN sr
                  ELSE SumSeverity(older_signals)
            diff_num == 2 * (sr * lo - so * lr)
            diff_den == lr * lo
        IN  IF diff_num > diff_den THEN "rising"
            ELSE IF diff_num < -diff_den THEN "falling"
            ELSE "stable"

\* datetime.isoformat(): the timestamp as text.
isoformat(t) == ToString(t)

\* signal_summary with the signal's source_url and
\* classification_rationale passed on as well.
signal_summary_with_source(signal) ==
    [event_summary |-> signal.event_summary,
     severity |-> signal.severity_score,
     timestamp |-> isoformat(signal.timestamp),
     source_type |-> signal.source_type,
     layers |-> signal.risk_layers,
     location |-> IF signal.location # "" THEN signal.location
                  ELSE signal.district,
     source_url |-> signal.source_url,
     rationale |-> signal.classification_rationale]

\* One entry of top_signals.
signal_summary(signal) ==
    [event_summary |-> signal.event_summary,
     severity |-> signal.severity_score,
     timestamp |-> isoformat(signal.timestamp),
     source_type |-> signal.source_type,
     layers |-> signal.risk_layers,
     location |-> IF signal.location # "" THEN signal.location
                  ELSE signal.district]

\* The signals in the order of weighted_signals after the sort.  The weight
\* is calculate_signal_weight(signal) with no reference_time, which
\* calculate_recency_weight replaces by datetime.now(): the wall clock.
ranked_signals(sigs) ==
    LET weighted_signals ==
            SortDesc([i \in DOMAIN sigs |->
                         <<sigs[i], calculate_signal_weight(sigs[i], now)>>])
    IN  [i \in DOMAIN weighted_signals |-> weighted_signals[i][1]]

\* select_top_signals without the [:count] slice.
select_top_signals_uncapped(sigs, count) ==
    LET ranked == ranked_signals(sigs)
    IN  [i \in DOMAIN ranked |-> signal_summary(ranked[i])]

select_top_signals(sigs, count) ==
    LET ranked == ranked_signals(sigs)
        top == SubSeq(ranked, 1, Min(count, Len(ranked)))
    IN  [i \in DOMAIN top |-> signal_summary(top[i])]

TopCount == 3

\* reference_time_arg is <<>> for None and <<t>> for an explicit time.
effective_reference_time(reference_time_arg) ==
    IF reference_time_arg = <<>> THEN now ELSE reference_time_arg[1]

DistrictRiskScore(district, state, composite_score, layer_scores, primary_trigger, secondary_triggers, trend, top_signals, threshold_info, time_window, signal_count, timestamp) ==
    [district |-> district, state |-> state,
     composite_score |-> composite_score, layer_scores |-> layer_scores,
     primary_trigger |-> primary_trigger,
     secondary_triggers |-> secondary_triggers, trend |-> trend,
     top_signals |-> top_signals, threshold_info |-> threshold_info,
     time_window |-> time_window, signal_count |-> signal_count,
     timestamp |-> timestamp]

\* compute_district_risk with the trend taken from the windowed signals.
compute_district_risk_windowed_trend(district, state, sigs, window_hours, reference_time_arg) ==
    LET reference_time == effective_reference_time(reference_time_arg)
        windowed_signals ==
            filter_by_time_window(sigs, window_hours, reference_time)
    IN  IF windowed_signals = <<>>
        THEN DistrictRiskScore(district, state, 0,
                 [cognitive |-> 0, network |-> 0, physical |-> 0], "none",
                 <<>>, "stable", <<>>,
                 [label |-> "BASELINE", range |-> "0-29", crossed |-> FALSE],
                 ToString(window_hours) \o "h", 0, reference_time)
        ELSE
        LET layer_scores == aggregate_layer_scores(windowed_signals, reference_time)
            composite_score == compute_composite_score(layer_scores)
            triggers == identify_primary_trigger(layer_scores)
            trend == detect_trend(windowed_signals, reference_time)
            top_signals == select_top_signals(windowed_signals, TopCount)
            threshold_label == get_label(composite_score)
            threshold_info ==
                [label |-> threshold_label,
                 range |-> get_range(threshold_label),
                 crossed |-> composite_score >= MONITORING * ScoreScale]
        IN  DistrictRiskScore(district, state, composite_score, layer_scores,
                triggers[1], triggers[2], trend, top_signals, threshold_info,
                ToString(window_hours) \o "h", Len(windowed_signals),
                reference_time)

compute_district_risk(district, state, sigs, window_hours, reference_time_arg) ==
    LET reference_time == effective_reference_time(reference_time_arg)
        windowed_signals ==
            filter_by_time_window(sigs, window_hours, reference_time)
    IN  IF windowed_signals = <<>>
        THEN DistrictRiskScore(district, state, 0,
                 [cognitive |-> 0, network |-> 0, physical |-> 0], "none",
                 <<>>, "stable", <<>>,
                 [label |-> "BASELINE", range |-> "0-29", crossed |-> FALSE],
                 ToString(window_hours) \o "h", 0, reference_time)
        ELSE
        LET layer_scores == aggregate_layer_scores(windowed_signals, reference_time)
            composite_score == compute_composite_score(layer_scores)
            triggers == identify_primary_trigger(layer_scores)
            trend == detect_trend(sigs, reference_time)
            top_signals == select_top_signals(windowed_signals, TopCount)
            threshold_label == get_label(composite_score)
            threshold_info ==
                [label |-> threshold_label,
                 range |-> get_range(threshold_label),
                 crossed |-> composite_score >= MONITORING * ScoreScale]
        IN  DistrictRiskScore(district, state, composite_score, layer_scores,
                triggers[1], triggers[2], trend, top_signals, threshold_info,
                ToString(window_hours) \o "h", Len(windowed_signals),
                reference_time)

\* signals_after_call with the filter done in place on the caller's list
\* (signals[:] = [...]) instead of into a new list.
signals_after_call_filtered_in_place(sigs, window_hours, reference_time) ==
    filter_by_time_window(sigs, window_hours, reference_time)

\* The caller's list object after compute_district_risk has returned.  The
\* call never assigns to the list or to a signal: filter_by_time_window
\* builds a new list with a comprehension, aggregate_layer_scores and
\* detect_trend only read, and select_top_signals sorts weighted_signals,
\* a list of its own.
signals_after_call(sigs, window_hours, reference_time) == sigs

\* dict.keys() and dict[key] on a sequence of <<key, value>> pairs.
dict_keys(d) == {d[i][1] : i \in DOMAIN d}

dict_get(d, key) == d[CHOOSE i \in DOMAIN d : d[i][1] = key][2]

\* batch_compute_districts without the `if not signals: continue` test: an
\* empty list is computed too, with the state "Unknown".
RECURSIVE batch_compute_districts_keep_empty(_, _)
batch_compute_districts_keep_empty(ds, window_hours) ==
    IF ds = <<>> THEN <<>>
    ELSE LET district == Head(ds)[1]
             sigs == Head(ds)[2]
             state == IF sigs # <<>> THEN sigs[1].state ELSE "Unknown"
         IN  <<<<district,
                 compute_district_risk(district, state, sigs, window_hours,
                                       <<>>)>>>>
             \o batch_compute_districts_keep_empty(Tail(ds), window_hours)

\* batch_compute_districts with one list shared by the iterations: each
\* district is computed on the signals of the districts before it and its
\* own.
RECURSIVE batch_from_accumulated(_, _, _)
batch_from_accumulated(ds, seen, window_hours) ==
    IF ds = <<>> THEN <<>>
    ELSE LET district == Head(ds)[1]
             sigs == Head(ds)[2]
         IN  IF sigs = <<>>
             THEN batch_from_accumulated(Tail(ds), seen, window_hours)
             ELSE <<<<district,
                      compute_district_risk(district, sigs[1].state,
                          seen \o sigs, window_hours, <<>>)>>>>
                  \o batch_from_accumulated(Tail(ds), seen \o sigs,
                                            window_hours)

batch_compute_districts_accumulating(ds, window_hours) ==
    batch_from_accumulated(ds, <<>>, window_hours)

\* results, as a dict in insertion order.  The loop goes through
\* district_signals.items() in order, skips a district whose list is empty,
\* and calls compute_district_risk with no reference_time (None).
RECURSIVE batch_compute_districts(_, _)
batch_compute_districts(ds, window_hours) ==
    IF ds = <<>> THEN <<>>
    ELSE LET district == Head(ds)[1]
             sigs == Head(ds)[2]
         IN  IF sigs = <<>>
             THEN batch_compute_districts(Tail(ds), window_hours)
             ELSE <<<<district,
                      compute_district_risk(district, sigs[1].state, sigs,
                                            window_hours, <<>>)>>>>
                  \o batch_compute_districts(Tail(ds), window_hours)

\* The caller's mapping after batch_compute_districts has returned: the
\* mapping itself is only iterated, and each non-empty list has been through
\* one compute_district_risk call.
district_signals_after_batch(ds, window_hours) ==
    [i \in DOMAIN ds |->
        <<ds[i][1],
          IF ds[i][2] = <<>> THEN <<>>
          ELSE signals_after_call(ds[i][2], window_hours, now)>>]

---------------------------------------------------------------------------
(* The caller: a signal list that grows, a wall clock, and calls           *)

MaxSignals == 2

NoCall == [status |-> "none"]

MaxInvocations == 2

Workers == 1 .. MaxInvocations

\* What self gives access to: the class attributes, and the instance
\* attributes, of which __init__ sets none.
EngineAttributes ==
    [RECENCY_DECAY |-> RECENCY_DECAY,
     GEO_SENSITIVITY_MULTIPLIERS |->
         [tag \in GeoSensitivity |-> GEO_SENSITIVITY_MULTIPLIERS(tag)],
     LAYER_WEIGHTS |-> [layer \in Range(RiskLayer) |-> LAYER_WEIGHTS(layer)],
     instance |-> <<>>]

Idle == [pc |-> "idle"]

\* The local variables of an invocation that has not assigned any yet.
NewFrame == [reference_time |-> 0, windowed_signals |-> <<>>]

\* The wall-clock times at which the caller acts: the time the explicit
\* reference time names, and five days later (a recomputation for audit).
ClockTimes == {0, timedelta_hours(120)}

\* Timestamps around reference time 0: one hour ahead of it (clock skew),
\* inside the windows, on the 24 h boundary, and one second past the 12 h
\* and 24 h boundaries.
SignalTimes ==
    {timedelta_hours(1), -timedelta_hours(2), -(timedelta_hours(12) + 1),
     -timedelta_hours(24), -(timedelta_hours(24) + 1)}

TimedSignals ==
    {ProcessedSignal("Manipur", "Imphal West", "", "Protest rally", ts,
                     <<"cognitive">>, "escalatory", sev, <<>>) :
        ts \in SignalTimes, sev \in {1, 5}}

ClassifiedSignals ==
    {ProcessedSignal("Manipur", "Imphal West", "Ima Market",
                     "Arms cache recovered", -timedelta_hours(2), c[1], pol,
                     3, c[2]) :
        c \in {<<<<"physical">>, <<"market_trade_hub", "border_area">>>>,
               <<<<"cognitive", "network">>, <<>>>>},
        pol \in Polarity}

UnlayeredSignals ==
    {ProcessedSignal("Manipur", "Imphal West", "", "Unclassified report",
                     -timedelta_hours(2), <<>>, "escalatory", 3, <<>>)}

SignalCatalogue == TimedSignals \cup ClassifiedSignals \cup UnlayeredSignals

WindowChoices == {24, 12, -1}

ReferenceChoices == {<<>>, <<0>>}

Init ==
    /\ signals = <<>>
    /\ now = 0
    /\ call = NoCall
    /\ district_signals = <<>>
    /\ engine = EngineAttributes
    /\ invocations = [i \in Workers |-> Idle]
    /\ frames = [i \in Workers |-> NewFrame]

\* The ingestion side hands the caller one more signal; the result of a
\* call on the shorter list is dropped.
Ingest(s) ==
    /\ Len(signals) < MaxSignals
    /\ signals' = Append(signals, s)
    /\ call' = NoCall
    /\ UNCHANGED <<now, district_signals, worker_vars>>

\* Wall-clock time passes.
Tick ==
    /\ \E t \in ClockTimes : t > now /\ now' = t
    /\ UNCHANGED <<signals, call, district_signals, worker_vars>>

\* One call of compute_district_risk on the caller's list.
Compute(window_hours, reference_time_arg) ==
    /\ call' = [status |-> "returned",
                window_hours |-> window_hours,
                reference_time |-> reference_time_arg,
                result |-> compute_district_risk("Imphal West", "Manipur",
                               signals, window_hours, reference_time_arg)]
    /\ signals' = signals_after_call(signals, window_hours,
                                     effective_reference_time(reference_time_arg))
    /\ UNCHANGED <<now, district_signals, worker_vars>>

Next ==
    \/ \E s \in SignalCatalogue : Ingest(s)
    \/ Tick
    \/ \E w \in WindowChoices, r \in ReferenceChoices : Compute(w, r)

Spec == Init /\ [][Next]_vars

---------------------------------------------------------------------------
(* RiskThreshold.get_label on its own: score probes on, next to and        *)
(* between the band boundaries, in units of 1/ScoreScale                   *)

ScoreProbes ==
    {n * ScoreScale : n \in 0 .. 100}
        \cup {b * ScoreScale + e :
                 b \in {MONITORING, PREVENTIVE, SENIOR_REVIEW, CRITICAL},
                 e \in {-1, 1}}

Classify(score) ==
    /\ call' = [status |-> "label", score |-> score, label |-> get_label(score)]
    /\ UNCHANGED <<signals, now, district_signals, worker_vars>>

NextThreshold == \E score \in ScoreProbes : Classify(score)

SpecThreshold == Init /\ [][NextThreshold]_vars

---------------------------------------------------------------------------
(* The example run of the module (__main__): three Imphal West signals     *)
(* at t-2h, t-6h and t-12h, with t = 0, handed over in any order           *)

ExampleSignals ==
    <<ProcessedSignal("Manipur", "Imphal West", "",
                      "Mass protest rally with thousands participating",
                      -timedelta_hours(2), <<"cognitive", "network">>,
                      "escalatory", 4, <<"market_trade_hub">>),
      ProcessedSignal("Manipur", "Imphal West", "",
                      "Arms cache recovered near border area",
                      -timedelta_hours(6), <<"physical">>, "escalatory", 5,
                      <<"border_area">>),
      ProcessedSignal("Manipur", "Imphal West", "",
                      "Peace dialogue meeting held tension de-escalates",
                      -timedelta_hours(12), <<"cognitive">>, "stabilizing", 2,
                      <<>>)>>

IngestExample(s) ==
    /\ s \notin Range(signals)
    /\ signals' = Append(signals, s)
    /\ call' = NoCall
    /\ UNCHANGED <<now, district_signals, worker_vars>>

NextExample ==
    \/ \E s \in Range(ExampleSignals) : IngestExample(s)
    \/ Tick
    \/ \E w \in WindowChoices, r \in ReferenceChoices : Compute(w, r)

SpecExample == Init /\ [][NextExample]_vars

---------------------------------------------------------------------------
(* The caller of batch_compute_districts: a mapping of districts to signal *)
(* lists that is filled district by district, batch calls on the mapping   *)
(* and direct compute_district_risk calls on one of its lists              *)

MaxDistricts == 2

Districts == {"Imphal West", "Churachandpur", "Kohima"}

StateOf(district) == IF district = "Kohima" THEN "Nagaland" ELSE "Manipur"

DistrictSignal(district, ts, sev) ==
    ProcessedSignal(StateOf(district), district, "", "Highway blockade", ts,
                    <<"physical">>, "escalatory", sev, <<"highway_transit">>)

\* The lists a district can be mapped to: empty, one signal in the 12 h
\* and 24 h windows, one signal a second older than the 24 h window, both,
\* and two signals in the windows with the heavier one last.
DistrictLists(district) ==
    LET recent == DistrictSignal(district, -timedelta_hours(2), 4)
        old == DistrictSignal(district, -(timedelta_hours(24) + 1), 2)
        minor == DistrictSignal(district, -timedelta_hours(6), 1)
    IN  {<<>>, <<recent>>, <<old>>, <<old, recent>>, <<minor, recent>>}

BatchWindows == {24, 12}

SetDistrict(district, sigs) ==
    /\ Len(district_signals) < MaxDistricts
    /\ district \notin dict_keys(district_signals)
    /\ district_signals' = Append(district_signals, <<district, sigs>>)
    /\ call' = NoCall
    /\ UNCHANGED <<signals, now, worker_vars>>

\* One call of batch_compute_districts on the caller's mapping.
Batch(window_hours) ==
    /\ call' = [status |-> "batch",
                window_hours |-> window_hours,
                result |-> batch_compute_districts(district_signals,
                                                   window_hours)]
    /\ district_signals' =
           district_signals_after_batch(district_signals, window_hours)
    /\ UNCHANGED <<signals, now, worker_vars>>

\* One direct call of compute_district_risk on the list of one district of
\* the mapping.
ComputeDistrict(i, window_hours, reference_time_arg) ==
    /\ i \in DOMAIN district_signals
    /\ LET district == district_signals[i][1]
           sigs == district_signals[i][2]
       IN  /\ call' = [status |-> "returned",
                       district |-> district,
                       window_hours |-> window_hours,
                       reference_time |-> reference_time_arg,
                       result |-> compute_district_risk(district,
                                      StateOf(district), sigs, window_hours,
                                      reference_time_arg)]
           /\ district_signals' =
                  [district_signals EXCEPT ![i][2] =
                      signals_after_call(sigs, window_hours,
                          effective_reference_time(reference_time_arg))]
    /\ UNCHANGED <<signals, now, worker_vars>>

NextBatch ==
    \/ \E d \in Districts : \E sigs \in DistrictLists(d) : SetDistrict(d, sigs)
    \/ Tick
    \/ \E w \in BatchWindows : Batch(w)
    \/ \E i \in 1 .. MaxDistricts, w \in BatchWindows, r \in ReferenceChoices :
           ComputeDistrict(i, w, r)

SpecBatch == Init /\ [][NextBatch]_vars

---------------------------------------------------------------------------
(* Concurrent invocations of compute_district_risk on one engine and one   *)
(* signal list, interleaved statement by statement.  The caller does not   *)
(* touch the list while an invocation is running.                          *)

\* The frame with every invocation's locals kept in one place (as they
\* would be if the method stored them on self).
frame_on_self(i) == 1

\* The frame that holds the local variables of invocation i: each call of
\* the method has its own.
frame(i) == i

local(i) == frames[frame(i)]

\* The arguments of the concurrent calls: the default reference time with
\* the 24 h window, an explicit one with a 6 h window.
ConcurrentCalls == {<<24, <<>>>>, <<6, <<0>>>>}

NoInvocationRunning ==
    \A i \in Workers : invocations[i].pc \in {"idle", "done"}

\* A signal arrives while no invocation is running; results held by the
\* callers are dropped.
IngestShared(s) ==
    /\ NoInvocationRunning
    /\ s \notin Range(signals)
    /\ signals' = Append(signals, s)
    /\ invocations' = [i \in Workers |-> Idle]
    /\ frames' = [i \in Workers |-> NewFrame]
    /\ UNCHANGED <<now, call, district_signals, engine>>

\* The call: a new frame.
Enter(i, window_hours, reference_time_arg) ==
    /\ invocations[i].pc \in {"idle", "done"}
    /\ invocations' = [invocations EXCEPT ![i] =
           [pc |-> "filter", window_hours |-> window_hours,
            reference_time |-> reference_time_arg]]
    /\ frames' = [frames EXCEPT ![frame(i)] = NewFrame]
    /\ UNCHANGED <<signals, now, call, district_signals, engine>>

\* Lines 403-406: the reference time and the windowed signals.
Filter(i) ==
    /\ invocations[i].pc = "filter"
    /\ LET reference_time ==
               effective_reference_time(invocations[i].reference_time)
       IN  frames' = [frames EXCEPT ![frame(i)] =
               [reference_time |-> reference_time,
                windowed_signals |->
                    filter_by_time_window(signals,
                        invocations[i].window_hours, reference_time)]]
    /\ invocations' = [invocations EXCEPT ![i].pc = "aggregate"]
    /\ UNCHANGED <<signals, now, call, district_signals, engine>>

\* Lines 409-428: the baseline is returned for an empty window.
ReturnBaseline(i) ==
    /\ invocations[i].pc = "aggregate"
    /\ local(i).windowed_signals = <<>>
    /\ invocations' = [invocations EXCEPT ![i] =
           [pc |-> "done", window_hours |-> @.window_hours,
            reference_time |-> @.reference_time,
            result |->
                DistrictRiskScore("Imphal West", "Manipur", 0,
                    [cognitive |-> 0, network |-> 0, physical |-> 0],
                    "none", <<>>, "stable", <<>>,
                    [label |-> "BASELINE", range |-> "0-29",
                     crossed |-> FALSE],
                    ToString(@.window_hours) \o "h", 0,
                    local(i).reference_time)]]
    /\ UNCHANGED <<signals, now, call, district_signals, engine, frames>>

\* Lines 431-434: the layer scores.
AggregateLayers(i) ==
    /\ invocations[i].pc = "aggregate"
    /\ local(i).windowed_signals # <<>>
    /\ frames' = [frames EXCEPT ![frame(i)] =
           [reference_time |-> @.reference_time,
            windowed_signals |-> @.windowed_signals,
            layer_scores |->
                aggregate_layer_scores(@.windowed_signals, @.reference_time)]]
    /\ invocations' = [invocations EXCEPT ![i].pc = "composite"]
    /\ UNCHANGED <<signals, now, call, district_signals, engine>>

\* Lines 434-443: the composite score, the triggers, the trend (from the
\* caller's full list) and the top signals.
ScoreAndExplain(i) ==
    /\ invocations[i].pc = "composite"
    /\ LET f == local(i)
           triggers == identify_primary_trigger(f.layer_scores)
       IN  frames' = [frames EXCEPT ![frame(i)] =
               [reference_time |-> f.reference_time,
                windowed_signals |-> f.windowed_signals,
                layer_scores |-> f.layer_scores,
                composite_score |-> compute_composite_score(f.layer_scores),
                primary |-> triggers[1],
                secondary |-> triggers[2],
                trend |-> detect_trend(signals, f.reference_time),
                top_signals |->
                    select_top_signals(f.windowed_signals, TopCount)]]
    /\ invocations' = [invocations EXCEPT ![i].pc = "assemble"]
    /\ UNCHANGED <<signals, now, call, district_signals, engine>>

\* Lines 446-466: the threshold information and the returned object.
Return(i) ==
    /\ invocations[i].pc = "assemble"
    /\ LET f == local(i)
           threshold_label == get_label(f.composite_score)
           threshold_info ==
               [label |-> threshold_label,
                range |-> get_range(threshold_label),
                crossed |-> f.composite_score >= MONITORING * ScoreScale]
       IN  invocations' = [invocations EXCEPT ![i] =
               [pc |-> "done", window_hours |-> @.window_hours,
                reference_time |-> @.reference_time,
                result |->
                    DistrictRiskScore("Imphal West", "Manipur",
                        f.composite_score, f.layer_scores, f.primary,
                        f.secondary, f.trend, f.top_signals, threshold_info,
                        ToString(@.window_hours) \o "h",
                        Len(f.windowed_signals), f.reference_time)]]
    /\ UNCHANGED <<signals, now, call, district_signals, engine, frames>>

NextConcurrent ==
    \/ \E s \in Range(ExampleSignals) : IngestShared(s)
    \/ \E i \in Workers : \E c \in ConcurrentCalls : Enter(i, c[1], c[2])
    \/ \E i \in Workers : Filter(i)
    \/ \E i \in Workers : ReturnBaseline(i)
    \/ \E i \in Workers : AggregateLayers(i)
    \/ \E i \in Workers : ScoreAndExplain(i)
    \/ \E i \in Workers : Return(i)

SpecConcurrent == Init /\ [][NextConcurrent]_vars

---------------------------------------------------------------------------
(* Longer lists, for top_signals: more signals in the window than the cap  *)
(* of select_top_signals, the same signal more than once, signals with and *)
(* without a location, and composite scores in each of the five bands      *)

MaxTopSignals == 4

TopCatalogue ==
    {ProcessedSignal("Manipur", "Imphal West", "Ima Market",
                     "Arms cache recovered", -timedelta_hours(2),
                     <<"physical">>, "escalatory", 5, <<"market_trade_hub">>),
     ProcessedSignal("Manipur", "Imphal West", "", "Protest rally",
                     -timedelta_hours(2), <<"cognitive", "network">>,
                     "escalatory", 4, <<>>),
     ProcessedSignal("Manipur", "Imphal West", "", "Peace meeting",
                     -(timedelta_hours(12) + 1), <<"cognitive">>,
                     "stabilizing", 3, <<"capital_admin">>),
     ProcessedSignal("Manipur", "Imphal West", "Kangla", "Rumour",
                     -(timedelta_hours(24) + 1), <<"cognitive">>, "neutral",
                     4, <<>>)}

IngestTop(s) ==
    /\ Len(signals) < MaxTopSignals
    /\ signals' = Append(signals, s)
    /\ call' = NoCall
    /\ UNCHANGED <<now, district_signals, worker_vars>>

NextTop ==
    \/ \E s \in TopCatalogue : IngestTop(s)
    \/ Tick
    \/ \E w \in WindowChoices, r \in ReferenceChoices : Compute(w, r)

SpecTop == Init /\ [][NextTop]_vars

---------------------------------------------------------------------------
(* calculate_signal_weight on its own: every severity and polarity, geo    *)
(* tag lists of length 0 to 2, and ages from an hour ahead of the          *)
(* reference time to more than eleven years behind it                      *)

AgeHours == {-1, 0, 2, 24, 72, 240, 1000, 100000}

GeoTagLists ==
    {<<>>} \cup {<<tag>> : tag \in GeoSensitivity}
        \cup {<<"market_trade_hub", "border_area">>}

Weigh(sev, pol, geo, age) ==
    /\ LET signal == ProcessedSignal("Manipur", "Imphal West", "",
                          "Protest rally", -timedelta_hours(age),
                          <<"cognitive">>, pol, sev, geo)
       IN  call' = [status |-> "weight", signal |-> signal,
                    weight |-> calculate_signal_weight(signal, 0)]
    /\ UNCHANGED <<signals, now, district_signals, worker_vars>>

NextWeight ==
    \E sev \in 1 .. 5, pol \in Polarity, geo \in GeoTagLists, age \in AgeHours :
        Weigh(sev, pol, geo, age)

SpecWeight == Init /\ [][NextWeight]_vars

---------------------------------------------------------------------------
(* detect_trend on its own: signals on both sides of the 24 h and 72 h     *)
(* cutoffs, of severity 2 and 3, so that the two means can differ by       *)
(* exactly one half                                                        *)

MaxTrendSignals == 3

TrendTimes ==
    {-timedelta_hours(2), -timedelta_hours(24), -(timedelta_hours(24) + 1),
     -timedelta_hours(72), -(timedelta_hours(72) + 1)}

TrendCatalogue ==
    {ProcessedSignal("Manipur", "Imphal West", "", "Protest rally", ts,
                     <<"cognitive">>, "escalatory", sev, <<>>) :
        ts \in TrendTimes, sev \in {2, 3}}

\* Reference times: the one the timestamps are laid out around, and two
\* days later, when the recent signals have become the older ones.
TrendReferences == {0, timedelta_hours(48)}

IngestTrend(s) ==
    /\ Len(signals) < MaxTrendSignals
    /\ signals' = Append(signals, s)
    /\ call' = NoCall
    /\ UNCHANGED <<now, district_signals, worker_vars>>

DetectTrend(reference_time) ==
    /\ call' = [status |-> "trend", reference_time |-> reference_time,
                trend |-> detect_trend(signals, reference_time)]
    /\ UNCHANGED <<signals, now, district_signals, worker_vars>>

NextTrend ==
    \/ \E s \in TrendCatalogue : IngestTrend(s)
    \/ \E r \in TrendReferences : DetectTrend(r)

SpecTrend == Init /\ [][NextTrend]_vars

---------------------------------------------------------------------------
(* identify_primary_trigger on its own: layer-score maps in the key order  *)
(* of aggregate_layer_scores, with negative, zero, equal and capped        *)
(* scores, and scores at and just below half of another, in units of       *)
(* 1/Scale                                                                 *)

TriggerScores == {-40000, -20000, 0, 25000, 49999, 50000, 100000}

Identify(layer_scores) ==
    /\ LET triggers == identify_primary_trigger(layer_scores)
       IN  call' = [status |-> "trigger", layer_scores |-> layer_scores,
                    primary |-> triggers[1], secondary |-> triggers[2]]
    /\ UNCHANGED <<signals, now, district_signals, worker_vars>>

NextTrigger ==
    \E c \in TriggerScores, n \in TriggerScores, p \in TriggerScores :
        Identify([cognitive |-> c, network |-> n, physical |-> p])

SpecTrigger == Init /\ [][NextTrigger]_vars

---------------------------------------------------------------------------
(* Properties                                                              *)

Returned == call.status = "returned"

\* The reference time the returned call worked with.
CallReference == call.result.timestamp

CallCutoff == CallReference - timedelta_hours(call.window_hours)

\* The call's arguments with the reference time made explicit.
Recompute(sigs) ==
    compute_district_risk("Imphal West", "Manipur", sigs, call.window_hours,
                          <<CallReference>>)

PassesFilter(s) == s.timestamp >= CallCutoff

\* The positions of the signals the call's filter lets through.
PassingIndices == {i \in DOMAIN signals : PassesFilter(signals[i])}

BaselineLayers == [cognitive |-> 0, network |-> 0, physical |-> 0]

\* C1: with the signals, the window and an explicitly supplied reference
\* time fixed, a second compute_district_risk call made at another
\* wall-clock time returns a result identical in every field.
C1_Deterministic ==
    [][(/\ Returned
        /\ call'.status = "returned"
        /\ signals' = signals
        /\ call.reference_time # <<>>
        /\ call'.reference_time = call.reference_time
        /\ call'.window_hours = call.window_hours)
       => call'.result = call.result]_vars

\* C2: when no signal of the list passes the time-window filter (the empty
\* list included), the call returns the zeroed baseline.
C2_EmptyWindowBaseline ==
    (Returned /\ PassingIndices = {}) =>
        /\ call.result.composite_score = 0
        /\ call.result.layer_scores = BaselineLayers
        /\ call.result.threshold_info.label = "BASELINE"
        /\ call.result.threshold_info.crossed = FALSE
        /\ call.result.trend = "stable"
        /\ call.result.primary_trigger = "none"
        /\ call.result.secondary_triggers = <<>>
        /\ call.result.top_signals = <<>>
        /\ call.result.signal_count = 0

\* A call on a non-empty list none of whose signals is in the window.
C2_Witness ==
    /\ Returned
    /\ signals # <<>>
    /\ PassingIndices = {}
    /\ call.result.signal_count = 0

InClosedWindow(s) == CallCutoff <= s.timestamp /\ s.timestamp <= CallReference

ClosedWindowIndices == {i \in DOMAIN signals : InClosedWindow(signals[i])}

\* C3: for a window of zero or more hours the filter keeps exactly the
\* signals with reference_time - window_hours <= t <= reference_time, so
\* signal_count is their number.
C3_WindowIsClosedInterval ==
    (Returned /\ call.window_hours >= 0) =>
        call.result.signal_count = Cardinality(ClosedWindowIndices)

\* C4: each of the three layer scores of a result lies in [0, 10].
C4_LayerScoresInRange ==
    Returned =>
        \A l \in Range(RiskLayer) :
            /\ call.result.layer_scores[l] >= 0
            /\ call.result.layer_scores[l] <= 10 * Scale

\* C5: the composite score of a result lies in [0, 100].
C5_CompositeInRange ==
    Returned =>
        /\ call.result.composite_score >= 0
        /\ call.result.composite_score <= 100 * ScoreScale

\* A result with one layer score below zero and another at the 10.0 cap.
C5_Witness ==
    /\ Returned
    /\ \E l \in Range(RiskLayer) : call.result.layer_scores[l] < 0
    /\ \E l \in Range(RiskLayer) : call.result.layer_scores[l] = 10 * Scale

\* C6: get_label partitions [0, 100] into [0,30) BASELINE, [30,60)
\* MONITORING, [60,75) PREVENTIVE_READINESS, [75,90) SENIOR_REVIEW and
\* [90,100] CRITICAL.
C6_ThresholdPartition ==
    call.status = "label" =>
        LET x == call.score
        IN  /\ call.label = "BASELINE" <=> x < 30 * ScoreScale
            /\ call.label = "MONITORING" <=>
                   (30 * ScoreScale <= x /\ x < 60 * ScoreScale)
            /\ call.label = "PREVENTIVE_READINESS" <=>
                   (60 * ScoreScale <= x /\ x < 75 * ScoreScale)
            /\ call.label = "SENIOR_REVIEW" <=>
                   (75 * ScoreScale <= x /\ x < 90 * ScoreScale)
            /\ call.label = "CRITICAL" <=> 90 * ScoreScale <= x

\* A score of exactly 30.000 classified as MONITORING.
C6_Witness ==
    /\ call.status = "label"
    /\ call.score = 30 * ScoreScale
    /\ call.label = "MONITORING"

AllEscalatoryInWindow ==
    /\ signals # <<>>
    /\ \A i \in DOMAIN signals :
           signals[i].polarity = "escalatory" /\ PassesFilter(signals[i])

\* C7: for a list of escalatory signals that all pass the window filter,
\* flipping the polarity of any one signal to stabilizing gives a composite
\* score that is less than or equal to the original one.
C7_StabilizingFlipNeverRaises ==
    (Returned /\ AllEscalatoryInWindow) =>
        \A i \in DOMAIN signals :
            Recompute([signals EXCEPT ![i].polarity = "stabilizing"]).composite_score
                <= call.result.composite_score

\* Two escalatory in-window signals, and a flip that lowers the score.
C7_Witness ==
    /\ Returned
    /\ AllEscalatoryInWindow
    /\ Len(signals) = 2
    /\ \E i \in DOMAIN signals :
           Recompute([signals EXCEPT ![i].polarity = "stabilizing"]).composite_score
               < call.result.composite_score

\* C8: raising the severity_score of one escalatory signal, everything else
\* fixed, never decreases the composite score.
C8_SeverityMonotone ==
    Returned =>
        \A i \in DOMAIN signals :
            signals[i].polarity = "escalatory" =>
                \A sev \in (signals[i].severity_score + 1) .. 5 :
                    Recompute([signals EXCEPT ![i].severity_score = sev]).composite_score
                        >= call.result.composite_score

\* An in-window escalatory signal of severity 3 next to another signal, and
\* a strictly higher score with its severity at 5.
C8_Witness ==
    /\ Returned
    /\ Len(signals) = 2
    /\ \E i \in DOMAIN signals :
           /\ signals[i].polarity = "escalatory"
           /\ signals[i].severity_score = 3
           /\ PassesFilter(signals[i])
           /\ Recompute([signals EXCEPT ![i].severity_score = 5]).composite_score
                  > call.result.composite_score

AllWithinLastDay ==
    \A i \in DOMAIN signals :
        signals[i].timestamp >= CallReference - timedelta_hours(24)

\* C9: when every signal lies within the 24 hours before the reference time,
\* detect_trend and the result of compute_district_risk say stable.
C9_RecentOnlyIsStable ==
    (Returned /\ AllWithinLastDay) =>
        /\ call.result.trend = "stable"
        /\ detect_trend(signals, CallReference) = "stable"

\* Two in-window signals of severities 1 and 5, all within the last day.
C9_Witness ==
    /\ Returned
    /\ AllWithinLastDay
    /\ call.result.signal_count = 2
    /\ {signals[i].severity_score : i \in DOMAIN signals} = {1, 5}

\* A signal one second older than the window.
AtWindowEdge(s) == s.timestamp = CallCutoff - 1

HasEdgeSignal == \E i \in DOMAIN signals : AtWindowEdge(signals[i])

WithoutEdgeSignals == SelectSeq(signals, LAMBDA s : ~AtWindowEdge(s))

\* The edge signal adds nothing to signal_count, layer_scores, top_signals.
EdgeSignalNotCounted ==
    /\ call.result.signal_count = Recompute(WithoutEdgeSignals).signal_count
    /\ call.result.layer_scores = Recompute(WithoutEdgeSignals).layer_scores
    /\ \A k \in DOMAIN call.result.top_signals :
           call.result.top_signals[k].timestamp # isoformat(CallCutoff - 1)

\* C10 as stated: a signal at reference_time - window_hours - 1 second adds
\* nothing to signal_count, layer_scores or top_signals, and the reported
\* trend is the one detect_trend yields on the full, unwindowed list.
C10_TrendAlwaysFromFullList ==
    (Returned /\ HasEdgeSignal) =>
        /\ EdgeSignalNotCounted
        /\ call.result.trend = detect_trend(signals, CallReference)

\* C10 amended: as above, with the trend that of detect_trend on the full
\* list when at least one signal passes the window filter, and stable when
\* none does.
C10_TrendFromFullListIfWindowed ==
    (Returned /\ HasEdgeSignal) =>
        /\ EdgeSignalNotCounted
        /\ call.result.trend =
               IF call.result.signal_count > 0
               THEN detect_trend(signals, CallReference)
               ELSE "stable"

\* The edge signal is left out of the count, and its severity changes the
\* trend the call reports.
C10_Witness ==
    /\ Returned
    /\ HasEdgeSignal
    /\ call.result.signal_count > 0
    /\ call.result.trend # Recompute(WithoutEdgeSignals).trend

\* A returned call on the three example signals with the 24 h window and
\* reference time t.
IsWorkedExample ==
    /\ Returned
    /\ Range(signals) = Range(ExampleSignals)
    /\ call.window_hours = 24
    /\ CallReference = 0

\* C11 as stated: for the worked example the composite score is in the
\* PREVENTIVE_READINESS or SENIOR_REVIEW band, 60 <= composite_score < 90.
C11_ExampleInMiddleBands ==
    IsWorkedExample =>
        /\ call.result.threshold_info.label
               \in {"PREVENTIVE_READINESS", "SENIOR_REVIEW"}
        /\ call.result.composite_score >= 60 * ScoreScale
        /\ call.result.composite_score < 90 * ScoreScale

\* C11 amended: for the worked example the composite score is in the
\* CRITICAL band, 90 <= composite_score <= 100.
C11_ExampleIsCritical ==
    IsWorkedExample =>
        /\ call.result.threshold_info.label = "CRITICAL"
        /\ call.result.composite_score >= 90 * ScoreScale
        /\ call.result.composite_score <= 100 * ScoreScale

\* The worked example computed: all three signals counted, physical at the
\* 10.0 cap, and a composite score between 93 and 94.
C11_Witness ==
    /\ IsWorkedExample
    /\ call.result.signal_count = 3
    /\ call.result.layer_scores.physical = 10 * Scale
    /\ call.result.composite_score > 93 * ScoreScale
    /\ call.result.composite_score < 94 * ScoreScale

\* C12: for the worked example primary_trigger is physical and the first
\* entry of top_signals is the severity-5 border/physical signal.
C12_ExamplePrimaryAndTop ==
    IsWorkedExample =>
        /\ call.result.primary_trigger = "physical"
        /\ call.result.top_signals # <<>>
        /\ call.result.top_signals[1] = signal_summary(ExampleSignals[2])

\* The worked example with the border signal handed over last and still
\* ranked first of three.
C12_Witness ==
    /\ IsWorkedExample
    /\ signals[3] = ExampleSignals[2]
    /\ Len(call.result.top_signals) = 3
    /\ call.result.top_signals[1].severity = 5
    /\ call.result.primary_trigger = "physical"

BatchReturned == call.status = "batch"

\* The districts of the caller's mapping whose list is not empty.
NonEmptyDistricts ==
    {district_signals[i][1] :
        i \in {j \in DOMAIN district_signals : district_signals[j][2] # <<>>}}

\* No signal of the list passes the filter the batch applied for the entry.
NonePassesFor(sigs, entry) ==
    \A k \in DOMAIN sigs :
        sigs[k].timestamp
            < entry.timestamp - timedelta_hours(call.window_hours)

\* C13: the output map has an entry for a district exactly if the district's
\* list is non-empty, and the entry is the baseline result when none of the
\* district's signals lies within the window.
C13_BatchOmitsOnlyEmptyLists ==
    BatchReturned =>
        /\ dict_keys(call.result) = NonEmptyDistricts
        /\ Len(call.result) = Cardinality(NonEmptyDistricts)
        /\ \A d \in NonEmptyDistricts :
               LET entry == dict_get(call.result, d)
               IN  NonePassesFor(dict_get(district_signals, d), entry) =>
                       /\ entry.signal_count = 0
                       /\ entry.composite_score = 0
                       /\ entry.threshold_info.label = "BASELINE"
                       /\ entry.primary_trigger = "none"
                       /\ entry.top_signals = <<>>

\* A batch over a district with an empty list (absent from the output) and a
\* district whose only signal is older than the window (present, baseline).
C13_Witness ==
    /\ BatchReturned
    /\ Len(district_signals) = 2
    /\ \E i \in DOMAIN district_signals : district_signals[i][2] = <<>>
    /\ Len(call.result) = 1
    /\ call.result[1][2].signal_count = 0
    /\ call.window_hours = 24

\* The mappings made of some of the entries of ds, in any order.
Rearrangements(ds) ==
    UNION {{[j \in 1 .. n |-> ds[f[j]]] :
               f \in {g \in [1 .. n -> DOMAIN ds] :
                          \A a, b \in 1 .. n : a # b => g[a] # g[b]}} :
           n \in 1 .. Len(ds)}

\* C14: an entry of the batch output equals what compute_district_risk
\* returns for that district's signals alone, with the same window and
\* reference time, and is the same in the batch over any mapping that has
\* other districts removed or the districts in another order.
C14_BatchEntriesIndependent ==
    (BatchReturned /\ call.result # <<>> /\ call.result[1][2].timestamp = now) =>
        \A d \in dict_keys(call.result) :
            LET entry == dict_get(call.result, d)
                sigs == dict_get(district_signals, d)
            IN  /\ entry = compute_district_risk(d, sigs[1].state, sigs,
                                call.window_hours, <<entry.timestamp>>)
                /\ \A m \in Rearrangements(district_signals) :
                       d \in dict_keys(m) =>
                           dict_get(batch_compute_districts(m,
                                        call.window_hours), d) = entry

\* A batch that returned different results for two districts.
C14_Witness ==
    /\ BatchReturned
    /\ Len(call.result) = 2
    /\ call.result[1][2].timestamp = now
    /\ call.result[1][2].signal_count = 1
    /\ call.result[2][2].signal_count = 2
    /\ call.result[1][2].composite_score # call.result[2][2].composite_score

\* C15: no step of an invocation writes to the engine (the instance or the
\* class-level tables), and every invocation, however its steps interleave
\* with those of the others, returns what compute_district_risk returns for
\* its arguments alone.
C15_StatelessEngine ==
    /\ engine = EngineAttributes
    /\ \A i \in Workers :
           invocations[i].pc = "done" =>
               invocations[i].result =
                   compute_district_risk("Imphal West", "Manipur", signals,
                       invocations[i].window_hours,
                       invocations[i].reference_time)

\* Two invocations with different windows have both returned, with
\* different results, the full computation behind each.
C15_Witness ==
    /\ Len(signals) = 3
    /\ \A i \in Workers : invocations[i].pc = "done"
    /\ invocations[1].window_hours # invocations[2].window_hours
    /\ invocations[1].result.signal_count # invocations[2].result.signal_count
    /\ invocations[1].result.composite_score
           # invocations[2].result.composite_score

\* C16: a compute_district_risk or batch_compute_districts call leaves the
\* caller's lists as they were: the same signals in the same order, every
\* field with the same value.
C16_InputUnchanged ==
    [][call'.status \in {"returned", "batch"} =>
           district_signals' = district_signals]_vars

\* After a batch call the mapping still holds a list of two signals of which
\* the filter passed one, and a list of two signals that the ranking put in
\* the other order.
C16_Witness ==
    /\ BatchReturned
    /\ \E d \in dict_keys(call.result) :
           /\ Len(dict_get(district_signals, d)) = 2
           /\ dict_get(call.result, d).signal_count = 1
    /\ \E d \in dict_keys(call.result) :
           LET sigs == dict_get(district_signals, d)
               top == dict_get(call.result, d).top_signals
           IN  /\ Len(sigs) = 2
               /\ Len(top) = 2
               /\ top[1] = signal_summary(sigs[2])
               /\ top[2] = signal_summary(sigs[1])

\* C17: a compute_district_risk call with a negative window_hours raises an
\* error and never returns a DistrictRiskScore.
C17_NegativeWindowRaises ==
    Returned => call.window_hours >= 0

SummaryKeys ==
    {"event_summary", "severity", "timestamp", "source_type", "layers",
     "location"}

\* The entry has the six values of signal s, the location falling back to
\* the district.
SummaryCopiedFrom(entry, s) ==
    /\ entry.event_summary = s.event_summary
    /\ entry.severity = s.severity_score
    /\ entry.timestamp = isoformat(s.timestamp)
    /\ entry.source_type = s.source_type
    /\ entry.layers = s.risk_layers
    /\ entry.location = (IF s.location = "" THEN s.district ELSE s.location)

\* C18: every entry of top_signals has exactly the keys event_summary,
\* severity, timestamp, source_type, layers and location, each value copied
\* from the selected signal, and no other field of the signal.
C18_SummaryFieldsOnly ==
    Returned =>
        \A k \in DOMAIN call.result.top_signals :
            LET entry == call.result.top_signals[k]
            IN  /\ DOMAIN entry = SummaryKeys
                /\ \E i \in DOMAIN signals :
                       SummaryCopiedFrom(entry, signals[i])

\* A result whose top_signals has an entry with the signal's own location
\* and an entry with the district in its place.
C18_Witness ==
    /\ Returned
    /\ \E k \in DOMAIN call.result.top_signals :
           call.result.top_signals[k].location = "Ima Market"
    /\ \E k \in DOMAIN call.result.top_signals :
           /\ call.result.top_signals[k].location = "Imphal West"
           /\ call.result.top_signals[k].layers = <<"cognitive", "network">>

\* The ways to pick, for every entry of top_signals, a different signal of
\* the list that passed the window filter and that the entry summarises.
TopSelections ==
    {f \in [DOMAIN call.result.top_signals -> PassingIndices] :
        /\ \A a, b \in DOMAIN f : a # b => f[a] # f[b]
        /\ \A k \in DOMAIN f :
               call.result.top_signals[k] = signal_summary(signals[f[k]])}

\* C19: top_signals is a list of at most 3 entries, holding only signals
\* that passed the time-window filter, each at most once.
C19_TopSignalsBounded ==
    Returned =>
        /\ DOMAIN call.result.top_signals
               = 1 .. Len(call.result.top_signals)
        /\ Len(call.result.top_signals) <= 3
        /\ TopSelections # {}

\* Four signals passed the filter, two of them equal, and top_signals has
\* three entries.
C19_Witness ==
    /\ Returned
    /\ call.result.signal_count = 4
    /\ Cardinality(Range(signals)) < Len(signals)
    /\ Len(call.result.top_signals) = 3

\* C20: the recency weight of a signal stamped after the reference time is
\* that of a signal stamped at the reference time, 1.0.
C20_FutureRecencyClamped ==
    Returned =>
        \A i \in DOMAIN signals :
            signals[i].timestamp > CallReference =>
                /\ calculate_recency_weight(signals[i].timestamp,
                                            CallReference)
                       = calculate_recency_weight(CallReference,
                                                  CallReference)
                /\ calculate_recency_weight(signals[i].timestamp,
                                            CallReference) <= Scale

\* C21: calculate_signal_weight is never zero: strictly positive for an
\* escalatory or neutral signal and strictly negative for a stabilizing one,
\* whatever the severity, the geo tags and the age.
C21_WeightNeverZero ==
    call.status = "weight" =>
        IF call.signal.polarity = "stabilizing"
        THEN call.weight < 0
        ELSE call.weight > 0

\* A neutral signal of severity 1 without geo tags, more than eleven years
\* old, weighs 0.2 * 0.1 * 1.0 * 0.3.
C21_Witness ==
    /\ call.status = "weight"
    /\ call.signal.polarity = "neutral"
    /\ call.signal.severity_score = 1
    /\ call.signal.geo_sensitivity = <<>>
    /\ call.signal.timestamp = -timedelta_hours(100000)
    /\ call.weight * 1000 = 6 * WeightDen

\* The positions of the signals of the recent bucket and of the older bucket
\* of a detect_trend call.
RecentBucket ==
    {i \in DOMAIN signals :
        signals[i].timestamp >= call.reference_time - timedelta_hours(24)}

OlderBucket ==
    {i \in DOMAIN signals :
        /\ signals[i].timestamp >= call.reference_time - timedelta_hours(72)
        /\ signals[i].timestamp < call.reference_time - timedelta_hours(24)}

\* The sum of the severities of the signals at the positions in bucket.
BucketSeverity(bucket) ==
    LET count(v) == Cardinality({i \in bucket : signals[i].severity_score = v})
    IN  count(1) + 2 * count(2) + 3 * count(3) + 4 * count(4) + 5 * count(5)

\* Twice (mean severity of the recent bucket - mean severity of the older
\* bucket), times the sizes of both buckets.
TwiceMeanDifferenceScaled ==
    2 * (BucketSeverity(RecentBucket) * Cardinality(OlderBucket)
         - BucketSeverity(OlderBucket) * Cardinality(RecentBucket))

BucketSizes == Cardinality(RecentBucket) * Cardinality(OlderBucket)

\* C22: with recent the signals of the last 24 h and older those from 72 h
\* to 24 h before the reference time (anything older ignored), the trend is
\* rising iff recent mean - older mean > 0.5, falling iff it is < -0.5, and
\* stable otherwise, a difference of exactly 0.5 or -0.5 and an empty
\* bucket included.
C22_TrendBucketsAndThresholds ==
    call.status = "trend" =>
        /\ call.trend = "rising" <=>
               (BucketSizes > 0 /\ TwiceMeanDifferenceScaled > BucketSizes)
        /\ call.trend = "falling" <=>
               (BucketSizes > 0 /\ TwiceMeanDifferenceScaled < -BucketSizes)
        /\ call.trend = "stable" <=>
               (\/ BucketSizes = 0
                \/ /\ TwiceMeanDifferenceScaled <= BucketSizes
                   /\ TwiceMeanDifferenceScaled >= -BucketSizes)

\* Recent severities 2 and 3 against an older severity of 2, on the 72 h
\* cutoff: a difference of exactly 0.5, reported as stable.
C22_Witness ==
    /\ call.status = "trend"
    /\ Cardinality(RecentBucket) = 2
    /\ Cardinality(OlderBucket) = 1
    /\ \E i \in OlderBucket :
           signals[i].timestamp = call.reference_time - timedelta_hours(72)
    /\ TwiceMeanDifferenceScaled = BucketSizes
    /\ call.trend = "stable"

Identified == call.status = "trigger"

\* The place of a layer in the priority order cognitive, network, physical.
Priority(layer) == CHOOSE i \in DOMAIN RiskLayer : RiskLayer[i] = layer

\* C23: the primary layer has the maximal score, and of the layers that tie
\* for the maximum it is the first in the order cognitive, network, physical.
C23_PrimaryIsFirstMaximum ==
    Identified =>
        /\ call.primary \in Range(RiskLayer)
        /\ \A l \in Range(RiskLayer) :
               /\ call.layer_scores[l] <= call.layer_scores[call.primary]
               /\ Priority(l) < Priority(call.primary) =>
                      call.layer_scores[l] < call.layer_scores[call.primary]

\* network and physical tie for the maximum above cognitive: network is
\* primary.
C23_Witness ==
    /\ Identified
    /\ call.layer_scores.network = call.layer_scores.physical
    /\ call.layer_scores.cognitive < call.layer_scores.network
    /\ call.primary = "network"

\* C24: the secondary triggers are exactly the layers other than the primary
\* whose score is at least 50% of the primary's score.
C24_SecondaryIsHalfOrMore ==
    Identified =>
        Range(call.secondary) =
            {l \in Range(RiskLayer) \ {call.primary} :
                2 * call.layer_scores[l] >= call.layer_scores[call.primary]}

\* One layer at exactly half of the primary's score is listed, one just
\* below half is not.
C24_Witness ==
    /\ Identified
    /\ call.layer_scores =
           [cognitive |-> 49999, network |-> 100000, physical |-> 50000]
    /\ call.primary = "network"
    /\ call.secondary = <<"physical">>

\* C30: the secondary list does not contain the primary layer, has no
\* duplicates, contains only layers of the map and is ordered by
\* non-increasing score.
C30_SecondaryWellFormed ==
    Identified =>
        /\ call.primary \notin Range(call.secondary)
        /\ Cardinality(Range(call.secondary)) = Len(call.secondary)
        /\ Range(call.secondary) \subseteq DOMAIN call.layer_scores
        /\ \A a, b \in DOMAIN call.secondary :
               a < b => call.layer_scores[call.secondary[a]]
                            >= call.layer_scores[call.secondary[b]]

\* Two secondary layers, listed against the key order of the map because
\* the later one has the higher score.
C30_Witness ==
    /\ Identified
    /\ call.primary = "cognitive"
    /\ call.secondary = <<"physical", "network">>
    /\ call.layer_scores.physical > call.layer_scores.network

\* C25: a result whose three layer scores are all zero has signal_count = 0.
C25_AllZeroMeansNoSignals ==
    (Returned /\ call.result.layer_scores = BaselineLayers) =>
        call.result.signal_count = 0

\* The weight of the signal at position i at the call's reference time.
ReferenceWeight(i) == calculate_signal_weight(signals[i], CallReference)

\* C26: top_signals are in-window signals in non-increasing order of the
\* weight evaluated at the call's reference time, and no in-window signal
\* left out weighs more than a listed one.
C26_TopRankedAtReferenceTime ==
    Returned =>
        \E f \in TopSelections :
            /\ \A a, b \in DOMAIN f :
                   a < b => ReferenceWeight(f[a]) >= ReferenceWeight(f[b])
            /\ \A j \in PassingIndices \ {f[k] : k \in DOMAIN f} :
                   \A k \in DOMAIN f :
                       ReferenceWeight(j) <= ReferenceWeight(f[k])

\* The positions of the in-window signals tagged with the layer.
TaggedIndices(layer) ==
    {i \in PassingIndices : layer \in Range(signals[i].risk_layers)}

\* The sum of the weights of the tagged signals from position i on.
RECURSIVE TaggedWeight(_, _)
TaggedWeight(layer, i) ==
    IF i > Len(signals) THEN 0
    ELSE (IF i \in TaggedIndices(layer) THEN ReferenceWeight(i) ELSE 0)
         + TaggedWeight(layer, i + 1)

\* 10 * (sum of the tagged weights) / (number of tagged signals), in units
\* of 1/Scale.
TenTimesMeanWeight(layer) ==
    TaggedWeight(layer, 1)
        \div (Cardinality(TaggedIndices(layer)) * (WeightDen \div (10 * Scale)))

WithoutSignal(i) ==
    SubSeq(signals, 1, i - 1) \o SubSeq(signals, i + 1, Len(signals))

\* Taking away any one signal not tagged with the layer leaves the layer's
\* score as it is.
UntaggedSignalsIrrelevant(layer) ==
    \A i \in DOMAIN signals :
        layer \notin Range(signals[i].risk_layers) =>
            Recompute(WithoutSignal(i)).layer_scores[layer]
                = call.result.layer_scores[layer]

\* C27 as stated: a layer's score is 10 times the sum of the weights of the
\* signals tagged with it divided by their number, 0 when there is none, and
\* does not change with a signal that is not tagged with the layer.
C27_LayerScoreIsTenTimesMean ==
    Returned =>
        \A layer \in Range(RiskLayer) :
            /\ call.result.layer_scores[layer] =
                   IF TaggedIndices(layer) = {} THEN 0
                   ELSE TenTimesMeanWeight(layer)
            /\ UntaggedSignalsIrrelevant(layer)

\* C27 amended: as above, with the score capped at 10.0.
C27_LayerScoreIsCappedMean ==
    Returned =>
        \A layer \in Range(RiskLayer) :
            /\ call.result.layer_scores[layer] =
                   IF TaggedIndices(layer) = {} THEN 0
                   ELSE Min(10 * Scale, TenTimesMeanWeight(layer))
            /\ UntaggedSignalsIrrelevant(layer)

\* Three signals in the window: two tagged cognitive, one of them tagged
\* network as well and alone there, one tagged physical and over the cap.
C27_Witness ==
    /\ Returned
    /\ call.result.signal_count = 3
    /\ Cardinality(TaggedIndices("cognitive")) = 2
    /\ Cardinality(TaggedIndices("network")) = 1
    /\ TaggedIndices("network") \subseteq TaggedIndices("cognitive")
    /\ call.result.layer_scores.network = TenTimesMeanWeight("network")
    /\ call.result.layer_scores.cognitive < call.result.layer_scores.network
    /\ TenTimesMeanWeight("physical") > 10 * Scale
    /\ call.result.layer_scores.physical = 10 * Scale

\* The band of a composite score and the band's range string.
BandOf(score) ==
    CASE score < 30 * ScoreScale -> "BASELINE"
      [] score >= 30 * ScoreScale /\ score < 60 * ScoreScale -> "MONITORING"
      [] score >= 60 * ScoreScale /\ score < 75 * ScoreScale ->
             "PREVENTIVE_READINESS"
      [] score >= 75 * ScoreScale /\ score < 90 * ScoreScale -> "SENIOR_REVIEW"
      [] score >= 90 * ScoreScale -> "CRITICAL"

BandRanges ==
    [BASELINE |-> "0-29", MONITORING |-> "30-59",
     PREVENTIVE_READINESS |-> "60-74", SENIOR_REVIEW |-> "75-89",
     CRITICAL |-> "90-100"]

BandRiskLevels ==
    [BASELINE |-> "low", MONITORING |-> "medium",
     PREVENTIVE_READINESS |-> "high", SENIOR_REVIEW |-> "critical",
     CRITICAL |-> "critical"]

\* C28: threshold_info.label is the band of composite_score, range is the
\* band's range string, crossed is true exactly when the label is not
\* BASELINE, and the exported risk level is low for BASELINE, medium for
\* MONITORING, high for PREVENTIVE_READINESS and critical for SENIOR_REVIEW
\* and CRITICAL.
C28_ClassificationConsistent ==
    Returned =>
        LET info == call.result.threshold_info
        IN  /\ info.label = BandOf(call.result.composite_score)
            /\ info.range = BandRanges[info.label]
            /\ info.crossed <=> info.label # "BASELINE"
            /\ get_risk_level(call.result.composite_score)
                   = BandRiskLevels[info.label]

\* A result in the SENIOR_REVIEW band, exported as critical.
C28_Witness ==
    /\ Returned
    /\ call.result.threshold_info.label = "SENIOR_REVIEW"
    /\ call.result.threshold_info.range = "75-89"
    /\ call.result.threshold_info.crossed
    /\ get_risk_level(call.result.composite_score) = "critical"

\* C29: signal_count is the number of signals that passed the window filter,
\* len(top_signals) = min(3, signal_count), and primary_trigger is "none"
\* exactly when signal_count = 0 and one of the three layers otherwise.
C29_CountsAndPrimaryAgree ==
    Returned =>
        /\ call.result.signal_count = Cardinality(PassingIndices)
        /\ Len(call.result.top_signals) = Min(3, call.result.signal_count)
        /\ call.result.primary_trigger = "none"
               <=> call.result.signal_count = 0
        /\ call.result.signal_count > 0 =>
               call.result.primary_trigger \in Range(RiskLayer)

\* Of four signals three passed the filter: three entries in top_signals and
\* a layer as primary trigger.
C29_Witness ==
    /\ Returned
    /\ Len(signals) = 4
    /\ call.result.signal_count = 3
    /\ Len(call.result.top_signals) = 3
    /\ call.result.primary_trigger = "physical"

=============================================================================
